---- MODULE Spec2Model ----
(***************************************************************************)
(* Model of arthexis/combat: the Roll / HitPoints / Character / Roster     *)
(* library (src/src/lib.rs) and the command line front end                 *)
(* (src/src/main.rs).                                                      *)
(*                                                                         *)
(* The specifications share the variables of this module:                  *)
(*   SpecRoll  a Roll object: from, with, roll                             *)
(*   SpecHP    a HitPoints object: default/from, set_max, temp, deal, heal *)
(*   Spec      invocations of the CLI: load, one subcommand, save          *)
(*   FairSpec  Spec, with the final save taken once a handler has returned *)
(*   SpecRoster a Roster object: join, kill, get, get_mut, roll_inits,     *)
(*             wipe                                                        *)
(* A formula (a Rust String) is a sequence of one-character strings, so    *)
(* that contains("d") and str::parse::<i64> are computed, not assumed.     *)
(***************************************************************************)
EXTENDS Integers, Sequences, FiniteSets, TLC

VARIABLES
    roll,       \* SpecRoll: the Roll object [formula, kind]
    withs,      \* SpecRoll: history, the kinds passed to with() since from()
    kinds,      \* SpecRoll: history, self.kind after each with() call
    draws,      \* SpecRoll: totals the dice evaluator returned in the last roll()
    result,     \* SpecRoll: value returned by the last roll()
    rstat,      \* SpecRoll: "new" | "resolved" | "panicked"
    hp,         \* SpecHP: the HitPoints object [max, current, temp]
    op,         \* SpecHP: history, the last operation applied to hp
    arg,        \* SpecHP: history, that operation's integer argument
    pre,        \* SpecHP: history, hp before that operation
    assigned,   \* SpecHP: history, whether from/set_max ever assigned max
    file,       \* Spec: the roster file (absent, unparsable, or a snapshot)
    roster,     \* Spec: main's in-memory Roster, name -> Character
    pc,         \* Spec: position of main
    cmd,        \* Spec: the subcommand and arguments of this invocation
    out,        \* Spec: initiative lines printed by sc::init in this invocation
    prior,      \* Spec: history, the roster file when this invocation started
    before      \* SpecRoster: history, the Roster before the last operation

rollVars == <<roll, withs, kinds, draws, result, rstat>>
hpVars == <<hp, op, arg, pre, assigned>>
cliVars == <<file, roster, pc, cmd, out, prior, before>>
vars == <<roll, withs, kinds, draws, result, rstat, hp, op, arg, pre, assigned,
          file, roster, pc, cmd, out, prior, before>>

(***************************************************************************)
(* Bounds                                                                  *)
(***************************************************************************)
\* faces of the dice evaluator's draw: every dice formula totals in 1..MaxDie
MaxDie == 3
\* with() calls tracked on one Roll
MaxWith == 4
\* dense range 0..MaxAmount of damage, healing, temp and max-HP values
MaxAmount == 3

Max(a, b) == IF a >= b THEN a ELSE b
Min(a, b) == IF a <= b THEN a ELSE b
Range(s) == {s[i] : i \in 1..Len(s)}

(***************************************************************************)
(* Strings: decimal text <-> integer                                       *)
(***************************************************************************)
DigitChars == <<"0", "1", "2", "3", "4", "5", "6", "7", "8", "9">>
IsDigit(c) == \E i \in 1..10 : DigitChars[i] = c
DigitVal(c) == CHOOSE i \in 0..9 : DigitChars[i + 1] = c

RECURSIVE DigitsVal(_)
DigitsVal(s) ==
    IF s = <<>> THEN 0
    ELSE DigitsVal(SubSeq(s, 1, Len(s) - 1)) * 10 + DigitVal(s[Len(s)])

\* s.contains("d")
Contains(s, c) == \E i \in 1..Len(s) : s[i] = c

\* str::parse::<i64>: an optional sign, then one or more decimal digits
ParseBody(s) == IF s # <<>> /\ s[1] \in {"+", "-"} THEN Tail(s) ELSE s
ParseOk(s) ==
    /\ ParseBody(s) # <<>>
    /\ \A i \in 1..Len(ParseBody(s)) : IsDigit(ParseBody(s)[i])
ParseVal(s) ==
    IF s[1] = "-" THEN 0 - DigitsVal(ParseBody(s)) ELSE DigitsVal(ParseBody(s))

\* Display of an i64, as format!("{}", n) writes it
RECURSIVE NatToStr(_)
NatToStr(n) ==
    IF n < 10 THEN <<DigitChars[n + 1]>>
    ELSE NatToStr(n \div 10) \o <<DigitChars[(n % 10) + 1]>>
IntToStr(n) == IF n < 0 THEN <<"-">> \o NatToStr(0 - n) ELSE NatToStr(n)

(***************************************************************************)
(* Rolls                                                                   *)
(***************************************************************************)
RollKind == {"Normal", "Advantage", "Disadvantage", "Cancelled"}

\* Roll::from
Roll_from(formula) == [formula |-> formula, kind |-> "Normal"]

\* Roll_with with the last modifier winning instead of cancelling
Roll_with_LastWins(r, kind) ==
    IF r.kind = "Normal" THEN [r EXCEPT !.kind = kind]
    ELSE IF r.kind # kind THEN [r EXCEPT !.kind = kind]
    ELSE r

\* Roll_with with a repeated modifier switching the modifier off again
Roll_with_Toggle(r, kind) ==
    IF r.kind = "Normal" THEN [r EXCEPT !.kind = kind]
    ELSE IF r.kind # kind THEN [r EXCEPT !.kind = "Cancelled"]
    ELSE [r EXCEPT !.kind = "Normal"]

\* Roll::with
Roll_with(r, kind) ==
    IF r.kind = "Normal" THEN [r EXCEPT !.kind = kind]
    ELSE IF r.kind # kind THEN [r EXCEPT !.kind = "Cancelled"]
    ELSE r

\* dr.roll().total(): the dice evaluator, one independent draw per call
DiceTotals == 1..MaxDie

\* Roll_roll with Advantage keeping a single draw
Roll_roll_OneDraw(r) ==
    IF ~Contains(r.formula, "d")
    THEN IF ParseOk(r.formula)
         THEN {[draws |-> <<>>, total |-> ParseVal(r.formula)]}
         ELSE {}
    ELSE IF r.kind = "Disadvantage"
         THEN {[draws |-> <<a, b>>, total |-> Min(a, b)] : a \in DiceTotals, b \in DiceTotals}
    ELSE {[draws |-> <<a>>, total |-> a] : a \in DiceTotals}

\* Roll::roll: the set of possible outcomes [draws, total]; the empty set is
\* the panic of expect("Invalid format for formula.")
Roll_roll(r) ==
    IF ~Contains(r.formula, "d")
    THEN IF ParseOk(r.formula)
         THEN {[draws |-> <<>>, total |-> ParseVal(r.formula)]}
         ELSE {}
    ELSE IF r.kind = "Advantage"
         THEN {[draws |-> <<a, b>>, total |-> Max(a, b)] : a \in DiceTotals, b \in DiceTotals}
    ELSE IF r.kind = "Disadvantage"
         THEN {[draws |-> <<a, b>>, total |-> Min(a, b)] : a \in DiceTotals, b \in DiceTotals}
    ELSE {[draws |-> <<a>>, total |-> a] : a \in DiceTotals}

\* the totals roll() can return
RollTotals(r) == {o.total : o \in Roll_roll(r)}

D20 == <<"d", "2", "0">>
BadFormula == <<"x">>

(***************************************************************************)
(* Hit points and characters                                               *)
(***************************************************************************)
\* #[derive(Default)] for HitPoints
HitPoints_default == [max |-> 0, current |-> 0, temp |-> 0]

\* HitPoints::from: one result per total the formula can roll
HitPoints_from(formula) ==
    {[max |-> t, current |-> t, temp |-> 0] : t \in RollTotals(Roll_from(formula))}

\* HitPoints::set_max, were it to refill current to the new maximum
HitPoints_set_max_Refill(h, formula) ==
    {[max |-> t, current |-> t, temp |-> h.temp] :
        t \in RollTotals(Roll_from(formula))}

\* HitPoints::set_max, were it to leave current alone
HitPoints_set_max_KeepCurrent(h, formula) ==
    {[max |-> t, current |-> h.current, temp |-> h.temp] :
        t \in RollTotals(Roll_from(formula))}

\* HitPoints::set_max: one result per total the formula can roll
HitPoints_set_max(h, formula) ==
    {[max |-> t, current |-> h.current + (t - h.max), temp |-> h.temp] :
        t \in RollTotals(Roll_from(formula))}

\* HitPoints::is_set
HitPoints_is_set(h) == h.max > 0

\* HitPoints::temp
HitPoints_temp(h, n) == IF n > h.temp THEN [h EXCEPT !.temp = n] ELSE h

\* HitPoints::deal; the second statement of the temp branch reads self.temp
\* after the first statement has already overwritten it
HitPoints_deal(h, dmg) ==
    LET temp1 == IF h.temp > 0 THEN Max(h.temp - dmg, 0) ELSE h.temp
        dmg1 == IF h.temp > 0 THEN dmg - temp1 ELSE dmg
        current1 == IF dmg1 > 0 THEN Max(h.current - dmg1, 0) ELSE h.current
    IN  [max |-> h.max, current |-> current1, temp |-> temp1]

\* HitPoints::heal, were it to add without the cap
HitPoints_heal_NoCap(h, dmg) == [h EXCEPT !.current = h.current + dmg]

\* HitPoints::heal
HitPoints_heal(h, dmg) == [h EXCEPT !.current = Min(h.current + dmg, h.max)]

\* Character_dead without the test that max is set
Character_dead_NoMaxTest(h) == h.current < 1

\* Character::dead, of the character's hp
Character_dead(h) == h.max > 0 /\ h.current < 1

\* Character::status, of the character's hp
Character_status(h) ==
    IF Character_dead(h) THEN <<"D", "E", "A", "D">>
    ELSE IF HitPoints_is_set(h) THEN IntToStr(h.current) \o <<" ", "H", "P">>
    ELSE <<>>

(***************************************************************************)
(* Roster                                                                  *)
(***************************************************************************)
\* #[derive(Default)] for Roster: the empty map
Roster_default == [n \in {} |-> HitPoints_default]

\* serde_json::to_string(&Roster): one object per map entry, integers written
\* as decimal text
Serialize(r) ==
    [json |-> TRUE,
     entries |-> {[key |-> n, name |-> r[n].name,
                   formula |-> r[n].init.formula, kind |-> r[n].init.kind,
                   max |-> IntToStr(r[n].hp.max),
                   current |-> IntToStr(r[n].hp.current),
                   temp |-> IntToStr(r[n].hp.temp)] : n \in DOMAIN r}]

\* serde_json::from_str::<Roster>: Ok for a serialized roster
DeserializeOk(t) ==
    /\ t.json
    /\ \A e \in t.entries :
          ParseOk(e.max) /\ ParseOk(e.current) /\ ParseOk(e.temp)
Deserialize(t) ==
    [n \in {e.key : e \in t.entries} |->
        LET e == CHOOSE x \in t.entries : x.key = n
        IN  [name |-> e.name,
             init |-> [formula |-> e.formula, kind |-> e.kind],
             hp |-> [max |-> ParseVal(e.max), current |-> ParseVal(e.current),
                     temp |-> ParseVal(e.temp)]]]

\* the roster file: absent (unreadable), or holding a text
FileAbsent == [state |-> "absent"]
FileText(t) == [state |-> "text", text |-> t]
Garbage == [json |-> FALSE, entries |-> {}]

\* Roster::load_from
Roster_load_from(f) ==
    IF f.state = "text"
    THEN IF DeserializeOk(f.text) THEN Deserialize(f.text) ELSE Roster_default
    ELSE Roster_default

\* Roster::save_to: the new content of the file
Roster_save_to(r) == FileText(Serialize(r))

\* Roster::join, were it to keep the hit points of an entry it replaces
Roster_join_KeepHP(r, name, init) ==
    [n \in DOMAIN r \cup {name} |->
        IF n = name
        THEN [name |-> name, init |-> init,
              hp |-> IF name \in DOMAIN r THEN r[name].hp ELSE HitPoints_default]
        ELSE r[n]]

\* Roster::join
Roster_join(r, name, init) ==
    [n \in DOMAIN r \cup {name} |->
        IF n = name
        THEN [name |-> name, init |-> init, hp |-> HitPoints_default]
        ELSE r[n]]

\* Roster::exists
Roster_exists(r, name) == name \in DOMAIN r

\* Roster::kill, were it to clear the map
Roster_kill_Clear(r, name) == [n \in {} |-> r[n]]

\* Roster::kill
Roster_kill(r, name) == [n \in DOMAIN r \ {name} |-> r[n]]

\* Roster::get, were it to hand out a blank character for an absent name
Roster_get_OrBlank(r, name) ==
    IF name \in DOMAIN r THEN {r[name]}
    ELSE {[name |-> name, init |-> Roll_from(D20), hp |-> HitPoints_default]}

\* Roster::get / Roster::get_mut: the character found; the empty set is the
\* panic of expect("No character found with that name.")
Roster_get(r, name) == IF name \in DOMAIN r THEN {r[name]} ELSE {}

\* the orders a HashMap can iterate its keys in
Orders(S) ==
    {o \in [1..Cardinality(S) -> S] : \A i, j \in 1..Cardinality(S) : o[i] = o[j] => i = j}

\* Roster::roll_inits, were it to pass over the dead
Roster_roll_inits_Living(r) ==
    LET L == {n \in DOMAIN r : ~Character_dead(r[n].hp)}
    IN  IF \E n \in L : RollTotals(r[n].init) = {} THEN {}
        ELSE {[i \in 1..Cardinality(L) |-> <<v[o[i]], o[i]>>] :
                o \in Orders(L),
                v \in {w \in [L -> UNION {RollTotals(r[n].init) : n \in L}] :
                         \A n \in L : w[n] \in RollTotals(r[n].init)}}

\* Roster::roll_inits: the possible vectors of <<value, name>>, one per
\* iteration order and per dice outcome; empty when an init roll panics
Roster_roll_inits(r) ==
    IF \E n \in DOMAIN r : RollTotals(r[n].init) = {} THEN {}
    ELSE {[i \in 1..Cardinality(DOMAIN r) |-> <<v[o[i]], o[i]>>] :
            o \in Orders(DOMAIN r),
            v \in {w \in [DOMAIN r -> UNION {RollTotals(r[n].init) : n \in DOMAIN r}] :
                     \A n \in DOMAIN r : w[n] \in RollTotals(r[n].init)}}

\* Roster::wipe, were it to take every character with current < 1 for dead
Roster_wipe_Downed(r) ==
    LET dead == {n \in DOMAIN r : r[n].hp.current < 1}
    IN  [n \in DOMAIN r \ dead |-> r[n]]

\* Roster::wipe: the names of the dead are collected first, then each is
\* removed by name
Roster_wipe(r) ==
    LET dead == {n \in DOMAIN r : Character_dead(r[n].hp)}
    IN  [n \in DOMAIN r \ dead |-> r[n]]

(***************************************************************************)
(* Subcommands (mod sc of main.rs). Each yields the set of its possible    *)
(* outcomes [roster, out, err]: the roster as the handler left it, the     *)
(* initiative lines it printed, and "none" when it returned or the error   *)
(* it panicked with.                                                       *)
(***************************************************************************)
None == [present |-> FALSE, val |-> <<>>]
Some(v) == [present |-> TRUE, val |-> v]

LairInit == 20
LairName == "LAIR ACTIONS"

Outcome(r, o, e) == [roster |-> r, out |-> o, err |-> e]

\* sc::roll
sc_roll(m, r) ==
    IF ~m.formula.present THEN {Outcome(r, <<>>, "none")}
    ELSE IF Roll_roll(Roll_from(m.formula.val)) = {}
         THEN {Outcome(r, <<>>, "FormatError")}
    ELSE {Outcome(r, <<>>, "none")}

\* inits.sort_by(|a, b| b.0.cmp(&a.0)): stable, descending by value. Entry i
\* lands behind every entry of greater value and every earlier entry of
\* equal value
SortedPos(s, i) ==
    1 + Cardinality({j \in 1..Len(s) :
                        s[j][1] > s[i][1] \/ (s[j][1] = s[i][1] /\ j < i)})
SortDesc(s) ==
    [p \in 1..Len(s) |-> s[CHOOSE i \in 1..Len(s) : SortedPos(s, i) = p]]

\* the entries sc::init sets out to list: the rolled inits, the lair entry
\* pushed when asked for, sorted
InitEntries(m, inits) ==
    SortDesc(IF m.lair THEN Append(inits, <<LairInit, LairName>>) ELSE inits)

\* the print loop of sc::init: a line per entry, until roster.get panics
InitLines(r, entries, k) ==
    [i \in 1..k |->
        [value |-> entries[i][1], name |-> entries[i][2],
         status |-> Character_status(r[entries[i][2]].hp)]]
InitLoop(r, entries) ==
    LET k == CHOOSE n \in 0..Len(entries) :
                 /\ \A i \in 1..n : Roster_get(r, entries[i][2]) # {}
                 /\ n < Len(entries) => Roster_get(r, entries[n + 1][2]) = {}
    IN  Outcome(r, InitLines(r, entries, k),
                IF k = Len(entries) THEN "none" ELSE "NotFound")

\* sc::init, were it to drop the dead from the roster once they are listed
sc_init_Wiping(m, r) ==
    IF Roster_roll_inits(r) = {} THEN {Outcome(r, <<>>, "FormatError")}
    ELSE {LET o == IF Len(inits) = 0 THEN Outcome(r, <<>>, "none")
                   ELSE InitLoop(r, InitEntries(m, inits))
          IN  Outcome(Roster_wipe(o.roster), o.out, o.err) :
            inits \in Roster_roll_inits(r)}

\* sc::init
sc_init(m, r) ==
    IF Roster_roll_inits(r) = {} THEN {Outcome(r, <<>>, "FormatError")}
    ELSE {IF Len(inits) = 0 THEN Outcome(r, <<>>, "none")
          ELSE InitLoop(r, InitEntries(m, inits)) : inits \in Roster_roll_inits(r)}

\* the initiative Roll sc::join builds from INIT, ADV and DIS
JoinInit(m) ==
    LET init0 == Roll_from(IF m.init.present THEN m.init.val ELSE D20)
        init1 == IF m.adv THEN Roll_with(init0, "Advantage") ELSE init0
    IN  IF m.dis THEN Roll_with(init1, "Disadvantage") ELSE init1

\* sc::join
sc_join(m, r) ==
    LET joined == Roster_join(r, m.name, JoinInit(m))
    IN  IF ~m.hp.present THEN {Outcome(joined, <<>>, "none")}
        ELSE IF Roster_get(joined, m.name) = {}
             THEN {Outcome(joined, <<>>, "NotFound")}
        ELSE IF HitPoints_set_max(joined[m.name].hp, m.hp.val) = {}
             THEN {Outcome(joined, <<>>, "FormatError")}
        ELSE {Outcome([joined EXCEPT ![m.name].hp = h], <<>>, "none") :
                h \in HitPoints_set_max(joined[m.name].hp, m.hp.val)}

\* sc::kill
sc_kill(m, r) ==
    IF Roster_exists(r, m.name) THEN {Outcome(Roster_kill(r, m.name), <<>>, "none")}
    ELSE {Outcome(r, <<>>, "none")}

\* sc::deal
sc_deal(m, r) ==
    IF RollTotals(Roll_from(m.dmg)) = {} THEN {Outcome(r, <<>>, "FormatError")}
    ELSE IF Roster_get(r, m.name) = {} THEN {Outcome(r, <<>>, "NotFound")}
    ELSE {Outcome([r EXCEPT ![m.name].hp = HitPoints_deal(@, t)], <<>>, "none") :
            t \in RollTotals(Roll_from(m.dmg))}

\* sc::heal
sc_heal(m, r) ==
    IF RollTotals(Roll_from(m.dmg)) = {} THEN {Outcome(r, <<>>, "FormatError")}
    ELSE IF Roster_get(r, m.name) = {} THEN {Outcome(r, <<>>, "NotFound")}
    ELSE {Outcome([r EXCEPT ![m.name].hp = HitPoints_heal(@, t)], <<>>, "none") :
            t \in RollTotals(Roll_from(m.dmg))}

(***************************************************************************)
(* Values the variables of the other specifications rest at                *)
(***************************************************************************)
NoCmd == [sub |-> "none", m |-> <<>>, err |-> "none"]
RollIdle ==
    /\ roll = Roll_from(<<>>) /\ withs = <<>> /\ kinds = <<>>
    /\ draws = <<>> /\ result = 0 /\ rstat = "new"
HPIdle ==
    /\ hp = HitPoints_default /\ op = "default" /\ arg = 0
    /\ pre = HitPoints_default /\ assigned = FALSE
CliIdle ==
    /\ file = FileAbsent /\ roster = Roster_default /\ pc = "start"
    /\ cmd = NoCmd /\ out = <<>> /\ prior = FileAbsent
    /\ before = Roster_default

(***************************************************************************)
(* SpecRoster: one Roster object, used as main.rs uses it and through      *)
(* wipe. cmd records the last method called, before the Roster it was      *)
(* called on, out what roll_inits returned.                                *)
(***************************************************************************)
Names == {"Grog", "Pike"}

RosterInits ==
    {Roll_from(D20), Roll_with(Roll_from(D20), "Advantage"), Roll_from(BadFormula)}

\* what a caller does to the hit points of the character get_mut hands it
HPEdits(h) ==
    HitPoints_set_max(h, <<"1">>) \cup HitPoints_set_max(h, <<"2">>)
        \cup {HitPoints_deal(h, 1), HitPoints_deal(h, 2), HitPoints_heal(h, 1)}

RosterInit == CliIdle /\ RollIdle /\ HPIdle

Called(sub, m, r, o, e) ==
    /\ roster' = r
    /\ before' = roster
    /\ cmd' = [sub |-> sub, m |-> m, err |-> e]
    /\ out' = o
    /\ UNCHANGED <<file, pc, prior, rollVars, hpVars>>

RosterJoin ==
    \E n \in Names, i \in RosterInits :
        Called("join", [name |-> n, init |-> i], Roster_join(roster, n, i), <<>>, "none")

RosterKill ==
    \E n \in Names : Called("kill", [name |-> n], Roster_kill(roster, n), <<>>, "none")

RosterGet ==
    \E n \in Names :
        Called("get", [name |-> n], roster, <<>>,
               IF Roster_get(roster, n) = {} THEN "NotFound" ELSE "none")

RosterGetMut ==
    \E n \in Names :
        IF Roster_get(roster, n) = {}
        THEN Called("get_mut", [name |-> n], roster, <<>>, "NotFound")
        ELSE \E h \in HPEdits(roster[n].hp) :
                Called("get_mut", [name |-> n], [roster EXCEPT ![n].hp = h], <<>>, "none")

RosterRollInits ==
    IF Roster_roll_inits(roster) = {}
    THEN Called("roll_inits", <<>>, roster, <<>>, "FormatError")
    ELSE \E v \in Roster_roll_inits(roster) :
            Called("roll_inits", <<>>, roster, v, "none")

RosterWipe == Called("wipe", <<>>, Roster_wipe(roster), <<>>, "none")

RosterNext ==
    \/ RosterJoin
    \/ RosterKill
    \/ RosterGet
    \/ RosterGetMut
    \/ RosterRollInits
    \/ RosterWipe

SpecRoster == RosterInit /\ [][RosterNext]_vars

(***************************************************************************)
(* SpecRoll: one Roll object                                               *)
(***************************************************************************)
\* formulas given to Roll::from: two dice formulas, integers, a non-formula
RollFormulas ==
    {D20, <<"2", "d", "6", "+", "3">>, BadFormula, <<"-", "2">>}
        \cup {IntToStr(n) : n \in 0..MaxAmount}

RollInit ==
    /\ roll \in {Roll_from(f) : f \in RollFormulas}
    /\ withs = <<>> /\ kinds = <<>> /\ draws = <<>> /\ result = 0 /\ rstat = "new"
    /\ HPIdle /\ CliIdle

\* let r = Roll::from(f)
RFrom ==
    \E f \in RollFormulas :
        /\ roll' = Roll_from(f)
        /\ withs' = <<>> /\ kinds' = <<>> /\ draws' = <<>> /\ result' = 0
        /\ rstat' = "new"
        /\ UNCHANGED <<hpVars, cliVars>>

\* r.with(k)
RWith ==
    \E k \in RollKind :
        /\ Len(withs) < MaxWith
        /\ roll' = Roll_with(roll, k)
        /\ withs' = Append(withs, k)
        /\ kinds' = Append(kinds, Roll_with(roll, k).kind)
        /\ draws' = <<>> /\ result' = 0 /\ rstat' = "new"
        /\ UNCHANGED <<hpVars, cliVars>>

\* r.roll() returning
RRoll ==
    \E o \in Roll_roll(roll) :
        /\ draws' = o.draws /\ result' = o.total /\ rstat' = "resolved"
        /\ UNCHANGED <<roll, withs, kinds, hpVars, cliVars>>

\* r.roll() panicking
RRollPanic ==
    /\ Roll_roll(roll) = {}
    /\ draws' = <<>> /\ result' = 0 /\ rstat' = "panicked"
    /\ UNCHANGED <<roll, withs, kinds, hpVars, cliVars>>

RollNext == RFrom \/ RWith \/ RRoll \/ RRollPanic
SpecRoll == RollInit /\ [][RollNext]_vars

(***************************************************************************)
(* SpecHP: one HitPoints object, as owned by a Character                   *)
(***************************************************************************)
\* arguments of the operations: a dense range plus the values of the
\* documented scenarios
MaxFormulas == {IntToStr(n) : n \in (0..MaxAmount) \cup {20, 30}} \cup {D20}
TempAmounts == (0..MaxAmount) \cup {5}
DealAmounts == (0..MaxAmount) \cup {8, 10, 35}
HealAmounts == 0..MaxAmount

HPInit == HPIdle /\ RollIdle /\ CliIdle

\* HitPoints::from(f) replaces the object
HPFrom ==
    \E f \in MaxFormulas : \E h \in HitPoints_from(f) :
        /\ hp' = h /\ pre' = hp /\ op' = "from" /\ arg' = h.max
        /\ assigned' = TRUE
        /\ UNCHANGED <<rollVars, cliVars>>

HPSetMax ==
    \E f \in MaxFormulas : \E h \in HitPoints_set_max(hp, f) :
        /\ hp' = h /\ pre' = hp /\ op' = "set_max" /\ arg' = h.max
        /\ assigned' = TRUE
        /\ UNCHANGED <<rollVars, cliVars>>

HPTemp ==
    \E n \in TempAmounts :
        /\ hp' = HitPoints_temp(hp, n) /\ pre' = hp /\ op' = "temp" /\ arg' = n
        /\ UNCHANGED <<assigned, rollVars, cliVars>>

HPDeal ==
    \E n \in DealAmounts :
        /\ hp' = HitPoints_deal(hp, n) /\ pre' = hp /\ op' = "deal" /\ arg' = n
        /\ UNCHANGED <<assigned, rollVars, cliVars>>

HPHeal ==
    \E n \in HealAmounts :
        /\ hp' = HitPoints_heal(hp, n) /\ pre' = hp /\ op' = "heal" /\ arg' = n
        /\ UNCHANGED <<assigned, rollVars, cliVars>>

HPNext == HPFrom \/ HPSetMax \/ HPTemp \/ HPDeal \/ HPHeal
SpecHP == HPInit /\ [][HPNext]_vars

(***************************************************************************)
(* Claims about HitPoints and Character, stated for SpecHP                 *)
(***************************************************************************)
\* C1: deal with temp > 0 and amount > temp, from a state with
\* 0 <= current <= max: temp becomes 0 and current drops by exactly
\* amount - temp, floored at 0 (max = current = 20, temp = 5, deal(8) ends
\* with temp = 0 and current = 17).
C1_DealOverflowsTemp ==
    (/\ op = "deal" /\ pre.temp > 0 /\ arg > pre.temp
     /\ 0 <= pre.current /\ pre.current <= pre.max)
        => /\ hp.temp = 0
           /\ hp.current = Max(pre.current - (arg - pre.temp), 0)

\* C2: deal with 0 <= amount <= temp leaves current unchanged and reduces
\* temp to temp - amount.
C2_DealWithinTemp ==
    (op = "deal" /\ 0 <= arg /\ arg <= pre.temp)
        => /\ hp.current = pre.current
           /\ hp.temp = pre.temp - arg

\* C3: right after every deal or heal call, max > 0 implies
\* 0 <= current <= max, so a negative current left by set_max is reclamped
\* by the next deal or heal.
C3_ClampedAfterDealOrHeal ==
    (op \in {"deal", "heal"} /\ hp.max > 0)
        => (0 <= hp.current /\ hp.current <= hp.max)

Full30 == [max |-> 30, current |-> 30, temp |-> 0]

\* C10: dead() holds exactly when max > 0 and current < 1; status() is
\* "DEAD" when dead, "{current} HP" when max is set and not dead, and empty
\* otherwise; a character whose max was never assigned is never dead
\* whatever deal/heal did (join then deal 10 gives status ""); set max 30
\* followed by deal 35 gives current = 0 and dead.
C10_DeadAndStatus ==
    /\ Character_dead(hp) <=> (hp.max > 0 /\ hp.current < 1)
    /\ Character_status(hp) =
          IF hp.max > 0 /\ hp.current < 1 THEN <<"D", "E", "A", "D">>
          ELSE IF hp.max > 0 THEN IntToStr(hp.current) \o <<" ", "H", "P">>
          ELSE <<>>
    /\ ~assigned => (~Character_dead(hp) /\ Character_status(hp) = <<>>)
    /\ (op = "deal" /\ arg = 10 /\ pre = HitPoints_default)
          => Character_status(hp) = <<>>
    /\ (op = "set_max" /\ arg = 30 /\ pre = HitPoints_default) => hp = Full30
    /\ (op = "deal" /\ arg = 35 /\ pre = Full30)
          => (hp.current = 0 /\ Character_dead(hp)
              /\ Character_status(hp) = <<"D", "E", "A", "D">>)

\* C10 witness: max was set to 30 and deal(35) has just killed the character
C10_Witness ==
    /\ op = "deal" /\ arg = 35 /\ pre = Full30
    /\ hp.current = 0 /\ Character_dead(hp)

(***************************************************************************)
(* Claims about Roll, stated for SpecRoll                                  *)
(***************************************************************************)
Modifiers == {"Advantage", "Disadvantage"}

\* C7: after any sequence of with(Advantage) / with(Disadvantage) calls on a
\* Roll made by from, the kind depends only on the set of modifiers applied:
\* none -> Normal, only Advantage -> Advantage, only Disadvantage ->
\* Disadvantage, both -> Cancelled; once Cancelled the kind stays Cancelled.
C7_KindDependsOnModifierSet ==
    Range(withs) \subseteq Modifiers =>
        /\ roll.kind =
              IF Range(withs) = {} THEN "Normal"
              ELSE IF Range(withs) = {"Advantage"} THEN "Advantage"
              ELSE IF Range(withs) = {"Disadvantage"} THEN "Disadvantage"
              ELSE "Cancelled"
        /\ \A i \in 1..Len(kinds) : \A j \in i..Len(kinds) :
              kinds[i] = "Cancelled" => kinds[j] = "Cancelled"

\* C7 witness: both modifiers applied, one of them more than once, and a
\* further call made after the kind became Cancelled
C7_Witness ==
    /\ withs = <<"Advantage", "Advantage", "Disadvantage", "Advantage">>
    /\ roll.kind = "Cancelled"

\* C8: with(k) applied twice in a row leaves the kind the first of the two
\* calls left, for every kind before them and every k.
C8_WithIdempotent ==
    \A i \in 2..Len(withs) :
        withs[i] = withs[i - 1] => kinds[i] = kinds[i - 1]

\* C8 witness: with(Advantage) twice on a Normal roll, kind still Advantage
C8_Witness ==
    /\ withs = <<"Advantage", "Advantage">>
    /\ kinds = <<"Advantage", "Advantage">>

\* C9: roll() of a dice formula draws exactly twice and returns the maximum
\* under Advantage, draws exactly twice and returns the minimum under
\* Disadvantage, draws exactly once and returns the draw under Normal and
\* Cancelled; roll() of the decimal text of an integer n returns n with no
\* draw, whatever the kind.
C9_RollResolution ==
    rstat = "resolved" =>
        /\ Contains(roll.formula, "d") =>
              /\ roll.kind = "Advantage" =>
                    (Len(draws) = 2 /\ result = Max(draws[1], draws[2]))
              /\ roll.kind = "Disadvantage" =>
                    (Len(draws) = 2 /\ result = Min(draws[1], draws[2]))
              /\ roll.kind \in {"Normal", "Cancelled"} =>
                    (Len(draws) = 1 /\ result = draws[1])
        /\ \A n \in (0 - 2)..MaxAmount :
              roll.formula = IntToStr(n) => (draws = <<>> /\ result = n)

\* C9 witness: an Advantage roll whose two draws differ, the larger returned
C9_Witness ==
    /\ rstat = "resolved" /\ roll.kind = "Advantage"
    /\ Contains(roll.formula, "d")
    /\ draws = <<1, MaxDie>> /\ result = MaxDie

(***************************************************************************)
(* Spec: invocations of the command line tool, one after the other         *)
(***************************************************************************)
RollArgs == {[formula |-> f] : f \in {None, Some(D20), Some(<<"7">>), Some(BadFormula)}}
InitArgs == {[lair |-> l] : l \in BOOLEAN}
JoinArgs ==
    {[name |-> n, init |-> None, adv |-> a, dis |-> d, hp |-> h] :
        n \in Names, a \in BOOLEAN, d \in BOOLEAN,
        h \in {None, Some(<<"2">>), Some(BadFormula)}}
    \cup {[name |-> n, init |-> Some(<<"2", "5">>), adv |-> FALSE, dis |-> FALSE,
           hp |-> None] : n \in Names}
    \cup {[name |-> LairName, init |-> None, adv |-> FALSE, dis |-> FALSE, hp |-> None]}
KillArgs == {[name |-> n] : n \in Names \cup {LairName}}
DmgArgs == {[name |-> n, dmg |-> d] : n \in Names, d \in {<<"1">>, <<"3">>, BadFormula}}

Init ==
    /\ file \in {FileAbsent, FileText(Garbage)}
    /\ prior = file
    /\ roster = Roster_default /\ pc = "start" /\ cmd = NoCmd /\ out = <<>>
    /\ before = Roster_default
    /\ RollIdle /\ HPIdle

\* Main_load, were a roster file that cannot be loaded to end the process
Main_load_Strict ==
    /\ pc = "start"
    /\ roster' = Roster_load_from(file)
    /\ prior' = file
    /\ pc' = IF file.state = "text" /\ DeserializeOk(file.text)
             THEN "loaded" ELSE "aborted"
    /\ UNCHANGED <<file, cmd, out, rollVars, hpVars, before>>

\* main, line 43: let mut roster = Roster::load_from(roster_file)
Main_load ==
    /\ pc = "start"
    /\ roster' = Roster_load_from(file)
    /\ prior' = file
    /\ pc' = "loaded"
    /\ UNCHANGED <<file, cmd, out, rollVars, hpVars, before>>

\* Ran with the roster written to the file as soon as the handler changed it
Ran_WriteThrough(sub, m, o) ==
    /\ roster' = o.roster
    /\ out' = o.out
    /\ cmd' = [sub |-> sub, m |-> m, err |-> o.err]
    /\ pc' = IF o.err = "none" THEN "ran" ELSE "aborted"
    /\ file' = Roster_save_to(o.roster)
    /\ UNCHANGED <<prior, rollVars, hpVars, before>>

\* one arm of main's match: the handler runs to its return or to its panic
Ran(sub, m, o) ==
    /\ roster' = o.roster
    /\ out' = o.out
    /\ cmd' = [sub |-> sub, m |-> m, err |-> o.err]
    /\ pc' = IF o.err = "none" THEN "ran" ELSE "aborted"
    /\ UNCHANGED <<file, prior, rollVars, hpVars, before>>

Main_roll ==
    /\ pc = "loaded"
    /\ \E m \in RollArgs : \E o \in sc_roll(m, roster) : Ran("roll", m, o)
Main_init ==
    /\ pc = "loaded"
    /\ \E m \in InitArgs : \E o \in sc_init(m, roster) : Ran("init", m, o)
Main_join ==
    /\ pc = "loaded"
    /\ \E m \in JoinArgs : \E o \in sc_join(m, roster) : Ran("join", m, o)
Main_kill ==
    /\ pc = "loaded"
    /\ \E m \in KillArgs : \E o \in sc_kill(m, roster) : Ran("kill", m, o)
Main_deal ==
    /\ pc = "loaded"
    /\ \E m \in DmgArgs : \E o \in sc_deal(m, roster) : Ran("deal", m, o)
Main_heal ==
    /\ pc = "loaded"
    /\ \E m \in DmgArgs : \E o \in sc_heal(m, roster) : Ran("heal", m, o)
Main_unrecognized ==
    /\ pc = "loaded"
    /\ Ran("unrecognized", <<>>, Outcome(roster, <<>>, "none"))

\* Main_save writing the roster as it was loaded, not as the handler left it
Main_save_Stale ==
    /\ pc = "ran"
    /\ file' = Roster_save_to(Roster_load_from(file))
    /\ pc' = "done"
    /\ UNCHANGED <<roster, cmd, out, prior, rollVars, hpVars, before>>

\* main, line 58: roster.save_to(roster_file)
Main_save ==
    /\ pc = "ran"
    /\ file' = Roster_save_to(roster)
    /\ pc' = "done"
    /\ UNCHANGED <<roster, cmd, out, prior, rollVars, hpVars, before>>

\* the process has ended (returned or panicked); the tool is invoked again
NextInvocation ==
    /\ pc \in {"done", "aborted"}
    /\ pc' = "start"
    /\ roster' = Roster_default /\ cmd' = NoCmd /\ out' = <<>> /\ prior' = file
    /\ UNCHANGED <<file, rollVars, hpVars, before>>

Next ==
    \/ Main_load
    \/ Main_roll \/ Main_init \/ Main_join \/ Main_kill \/ Main_deal
    \/ Main_heal \/ Main_unrecognized
    \/ Main_save
    \/ NextInvocation

Spec == Init /\ [][Next]_vars

\* main runs on: once a handler has returned, the save of line 58 is executed
FairSpec == Spec /\ WF_vars(Main_save)

(***************************************************************************)
(* Claims about the command line tool, stated for Spec and FairSpec        *)
(***************************************************************************)
\* C4: init with the lair option on a non-empty roster injects one entry at
\* value 20 that is no Character, lists it together with exactly one entry
\* per roster character in descending order of value, and completes without
\* the lair entry having to exist in the roster.
C4_LairInitCompletes ==
    (/\ pc \in {"ran", "done", "aborted"} /\ cmd.sub = "init" /\ cmd.m.lair
     /\ DOMAIN roster # {})
        => /\ pc # "aborted"
           /\ Len(out) = Cardinality(DOMAIN roster) + 1
           /\ \E i \in 1..Len(out) :
                 out[i].name = LairName /\ out[i].value = LairInit
           /\ \A n \in DOMAIN roster \ {LairName} :
                 Cardinality({i \in 1..Len(out) : out[i].name = n}) = 1
           /\ \A i \in 1..Len(out) : \A j \in i..Len(out) :
                 out[i].value >= out[j].value

\* C5: the write to the roster file is the last step of an invocation: up to
\* it, and in every invocation aborted by a fatal error (invalid formula,
\* lookup of an absent name), the file is the one present when the
\* invocation started, whatever the handler did to the in-memory roster;
\* only an invocation whose handler returned reaches the save.
C5_AbortLeavesFileUntouched ==
    /\ pc \in {"start", "loaded", "ran", "aborted"} => file = prior
    /\ pc = "aborted" => cmd.err \in {"FormatError", "NotFound"}
    /\ pc = "done" => cmd.err = "none"

\* C5 witness: join added the character in memory, then set_max panicked on
\* the HP formula; the file still is the prior one
C5_Witness ==
    /\ pc = "aborted" /\ cmd.sub = "join" /\ cmd.err = "FormatError"
    /\ cmd.m.name \in DOMAIN roster
    /\ roster # Roster_load_from(file)
    /\ file = prior

\* C6, as claimed: every invocation, whichever subcommand ran, ends with the
\* in-memory roster saved.
C6_EveryInvocationSaves ==
    pc \in {"done", "aborted"} =>
        (pc = "done" /\ file = Roster_save_to(roster))

\* C6, amended: whichever subcommand ran, once its handler has returned
\* without a fatal error the load is eventually followed by the save, and
\* what is saved is the in-memory roster.
C6_ReturnLeadsToSave ==
    /\ [](pc = "done" => file = Roster_save_to(roster))
    /\ (pc = "ran") ~> (pc = "done")

\* C6 witness: a deal that changed a character's hit points has been saved
C6_Witness ==
    /\ pc = "done" /\ cmd.sub = "deal"
    /\ file = Roster_save_to(roster) /\ file # prior

(***************************************************************************)
(* Claims about Roster, stated for SpecRoster                              *)
(***************************************************************************)
\* C11: join(name, init) on a name already present replaces that entry with
\* a Character carrying the new init and zeroed hit points, whatever hit
\* points the entry had, and leaves every other entry as it was; on an
\* absent name it adds exactly that one entry.
C11_JoinReplacesOneEntry ==
    cmd.sub = "join" =>
        /\ DOMAIN roster = DOMAIN before \cup {cmd.m.name}
        /\ roster[cmd.m.name] =
               [name |-> cmd.m.name, init |-> cmd.m.init,
                hp |-> [max |-> 0, current |-> 0, temp |-> 0]]
        /\ \A k \in DOMAIN before \ {cmd.m.name} : roster[k] = before[k]

\* a join over an entry that had hit points and another init, next to an
\* entry with hit points that stays
C11_Witness ==
    /\ cmd.sub = "join" /\ cmd.m.name \in DOMAIN before
    /\ before[cmd.m.name].hp.max > 0
    /\ before[cmd.m.name].init # cmd.m.init
    /\ roster[cmd.m.name].hp.max = 0
    /\ \E k \in DOMAIN roster \ {cmd.m.name} : roster[k].hp.max > 0

\* C12: wipe removes exactly the characters that were dead (max > 0 and
\* current < 1) when it was called, leaves every other character with the
\* init and hit points it had, and no dead character remains.
C12_WipeRemovesExactlyTheDead ==
    cmd.sub = "wipe" =>
        /\ DOMAIN roster =
               {n \in DOMAIN before :
                   ~(before[n].hp.max > 0 /\ before[n].hp.current < 1)}
        /\ \A n \in DOMAIN roster : roster[n] = before[n]
        /\ \A n \in DOMAIN roster :
               ~(roster[n].hp.max > 0 /\ roster[n].hp.current < 1)

\* a wipe of a roster holding a dead character and one whose hit points were
\* never set: the dead one goes, the other stays
C12_Witness ==
    /\ cmd.sub = "wipe"
    /\ \E d \in DOMAIN before : before[d].hp.max > 0 /\ before[d].hp.current < 1
    /\ \E n \in DOMAIN roster : roster[n].hp.max = 0 /\ roster[n].hp.current = 0
    /\ Cardinality(DOMAIN before) = 2 /\ Cardinality(DOMAIN roster) = 1

\* C13: kill(name) raises no error; on an absent name it leaves the roster
\* as it was, on a present name it removes that entry and no other.
C13_KillRemovesOnlyThatEntry ==
    cmd.sub = "kill" =>
        /\ cmd.err = "none"
        /\ DOMAIN roster = DOMAIN before \ {cmd.m.name}
        /\ \A k \in DOMAIN roster : roster[k] = before[k]
        /\ cmd.m.name \notin DOMAIN before => roster = before

\* a kill of a name the roster, not empty, does not hold
C13_Witness ==
    /\ cmd.sub = "kill" /\ cmd.m.name \notin DOMAIN before
    /\ DOMAIN before # {} /\ roster = before

\* C18: roll_inits returns one <<value, name>> pair per roster entry, the
\* value one resolution of that character's init Roll, the names returned
\* being the keys of the roster, each once; the roster is not modified.
C18_RollInitsOnePairPerEntry ==
    cmd.sub = "roll_inits" =>
        /\ roster = before
        /\ cmd.err = "none" =>
              /\ Len(out) = Cardinality(DOMAIN roster)
              /\ {out[i][2] : i \in 1..Len(out)} = DOMAIN roster
              /\ \A i \in 1..Len(out) :
                     out[i][1] \in RollTotals(roster[out[i][2]].init)

\* roll_inits on two characters, one of them dead, with different values
C18_Witness ==
    /\ cmd.sub = "roll_inits" /\ cmd.err = "none" /\ Len(out) = 2
    /\ out[1][1] # out[2][1]
    /\ \E n \in DOMAIN roster : Character_dead(roster[n].hp)

(***************************************************************************)
(* Further claims about HitPoints, stated for SpecHP                       *)
(***************************************************************************)
\* C16: heal(amount) sets current to min(current + amount, max), so current
\* is not above max afterwards, and leaves temp and max as they were.
C16_HealCapsAtMax ==
    op = "heal" =>
        /\ hp.current = Min(pre.current + arg, pre.max)
        /\ hp.current <= hp.max
        /\ hp.temp = pre.temp
        /\ hp.max = pre.max

\* a heal by more than the damage taken, temporary hit points present
C16_Witness ==
    /\ op = "heal" /\ pre.current < pre.max /\ pre.current + arg > pre.max
    /\ hp.current = pre.max /\ pre.temp > 0

\* C17: set_max resolving to new_max sets max to new_max and current to
\* current + (new_max - old max), unclamped: the damage taken, max - current,
\* is what it was, temp is unchanged, and on zeroed hit points (what join
\* hands it) max = current = new_max.
C17_SetMaxShiftsCurrent ==
    op = "set_max" =>
        /\ hp.max = arg
        /\ hp.current = pre.current + (arg - pre.max)
        /\ hp.max - hp.current = pre.max - pre.current
        /\ hp.temp = pre.temp
        /\ pre = HitPoints_default => hp.max = arg /\ hp.current = arg

\* a maximum lowered from 3 to 1 with 2 damage taken: current ends at -1
C17_Witness ==
    /\ op = "set_max" /\ pre.max = 3 /\ pre.current = 1 /\ arg = 1
    /\ hp.current = -1 /\ pre.temp > 0

\* C19: in every state reached from default or from(n), n >= 0, by set_max
\* (value >= 0), temp, deal and heal with amounts >= 0, current <= max and
\* temp >= 0, right after a set_max included.
C19_CurrentAtMostMax == hp.current <= hp.max /\ hp.temp >= 0

\* right after a set_max to 0 of damaged hit points: current below 0, max 0
C19_Witness ==
    /\ op = "set_max" /\ hp.max = 0 /\ hp.current < 0
    /\ pre.current >= 0 /\ pre.current < pre.max

(***************************************************************************)
(* Further claims about the command line tool, stated for Spec             *)
(***************************************************************************)
\* C14: deal or heal naming a character the roster does not hold aborts
\* (the lookup fails, or the amount did not parse before it), with the
\* roster as it was loaded and the file as it was.
C14_AbsentNameAborts ==
    (/\ pc \in {"ran", "done", "aborted"} /\ cmd.sub \in {"deal", "heal"}
     /\ cmd.m.name \notin DOMAIN Roster_load_from(prior))
        => /\ pc = "aborted"
           /\ cmd.err = IF RollTotals(Roll_from(cmd.m.dmg)) = {}
                        THEN "FormatError" ELSE "NotFound"
           /\ roster = Roster_load_from(prior)
           /\ file = prior

\* a heal of an absent name, the roster holding a damaged character
C14_Witness ==
    /\ pc = "aborted" /\ cmd.sub = "heal" /\ cmd.err = "NotFound"
    /\ cmd.m.name \notin DOMAIN roster
    /\ \E n \in DOMAIN roster : roster[n].hp.current < roster[n].hp.max

\* C15: loading never ends the invocation: a roster file that is missing,
\* unreadable or unparsable gives the empty roster, and an invocation only
\* aborts inside a subcommand.
C15_LoadNeverFails ==
    /\ (/\ pc = "loaded"
        /\ (prior.state # "text" \/ ~DeserializeOk(prior.text)))
           => roster = Roster_default
    /\ pc = "aborted" => cmd.sub # "none"

\* an invocation on an unparsable file that went on to join and to save
C15_Witness ==
    /\ pc = "done" /\ prior = FileText(Garbage) /\ cmd.sub = "join"
    /\ DOMAIN roster = {cmd.m.name}
    /\ file = Roster_save_to(roster)

\* C20: a completed roll, init or unrecognized invocation on a roster file
\* that loads leaves the persisted roster equal to the one loaded: the same
\* names, init formulas and kinds, and hit points.
C20_ReadOnlyKeepsRoster ==
    (/\ pc = "done" /\ cmd.sub \in {"roll", "init", "unrecognized"}
     /\ prior.state = "text" /\ DeserializeOk(prior.text))
        => /\ file.state = "text" /\ DeserializeOk(file.text)
           /\ Roster_load_from(file) = Roster_load_from(prior)

\* a completed init that listed two characters, one dead, one with an
\* Advantage init
C20_Witness ==
    /\ pc = "done" /\ cmd.sub = "init" /\ Len(out) = 2
    /\ prior.state = "text" /\ DeserializeOk(prior.text)
    /\ \E n \in DOMAIN roster : Character_dead(roster[n].hp)
    /\ \E n \in DOMAIN roster : roster[n].init.kind = "Advantage"
    /\ Cardinality(DOMAIN Roster_load_from(file)) = 2

====
